---- MODULE Spec2Model ----
(***************************************************************************)
(* Wallet ledger of the Casino backend: apps/wallet/services.py            *)
(* (WalletService), apps/wallet/models.py (Wallet, WalletTransaction,      *)
(* WalletLock) and core/redis/locks.py (DistributedLock).                  *)
(*                                                                         *)
(* The database is PostgreSQL at its default READ COMMITTED level: a       *)
(* storage transaction sees committed rows and its own writes, SELECT ...  *)
(* FOR UPDATE waits for the row's current locker and then reads the        *)
(* committed row, and an INSERT of a unique key waits for an in-flight     *)
(* insert of the same key and fails once that one has committed.           *)
(* A waiting statement is an action that is not enabled.                   *)
(*                                                                         *)
(* Amounts are integers: the number of 10^-8 units of the DecimalField.    *)
(***************************************************************************)
EXTENDS Integers, Sequences, FiniteSets, TLC

\* ---------------------------------------------------------------- bounds
MaxCalls == 3          \* service calls started in one behaviour
MaxAmount == 1         \* largest amount argument of a call

UserSeq == <<"u1", "u2">>
Users == {UserSeq[i] : i \in 1 .. Len(UserSeq)}
Procs == {"p1", "p2"}          \* request handlers (threads / processes)
Keys == {101, 102}               \* client supplied idempotency keys
Rounds == {201}                  \* game_round_id values
Amounts == 1 .. MaxAmount        \* positive amount arguments
WinAmounts == 0 .. 1             \* win_amount arguments of settle_bet

NoProc == "none"
NoUser == "none"

VARIABLES
    wallet,      \* committed Wallet rows: user -> [created, balance, locked_balance, version]
    txns,        \* committed WalletTransaction rows, in commit order
    locks,       \* committed WalletLock rows (a set)
    idemCache,   \* django cache, "idempotency:<key>" -> {} (absent) or {txn}
    redisLock,   \* redis, "lock:wallet:<user>" -> {} (absent) or {token}
    rowOwner,    \* wallet row lock (SELECT ... FOR UPDATE): user -> process or NoProc
    call,        \* per process: the call it is executing and its local state
    calls,       \* number of calls started so far (numbers the uuid4 values)
    commits,     \* history: number of committed wallet writes per user
    debited,     \* history: balance taken from wallets by committed place_bet calls, per key
    balanceCache, \* django cache, "wallet_balance:<user>" -> {} (absent) or {balance}
    walletRows,  \* number of Wallet rows whose user is the user
    lapsed       \* ids of the WalletLock rows whose expires_at is in the past

vars == <<wallet, txns, locks, idemCache, redisLock, rowOwner, call, calls, commits, debited,
          balanceCache, walletRows, lapsed>>

\* ------------------------------------------------------------- rows
\* Wallet.objects.create defaults
NewWallet == [created |-> TRUE, balance |-> 0, locked_balance |-> 0, version |-> 0]
NoWallet == [created |-> FALSE, balance |-> 0, locked_balance |-> 0, version |-> 0]

\* Wallet.available_balance
AvailableBalance(w) == w.balance - w.locked_balance

\* WalletTransaction row
Txn(id, u, type, amount, before, after, ref, key) ==
    [id |-> id, wallet |-> u, type |-> type, amount |-> amount,
     balance_before |-> before, balance_after |-> after,
     reference_id |-> ref, idempotency_key |-> key]

\* WalletLock row
WLock(id, u, amount, type, ref) ==
    [id |-> id, wallet |-> u, amount |-> amount, lock_type |-> type, reference_id |-> ref]

\* uuid.uuid4(): a value no client key, round or earlier uuid equals; call n draws n
Uuid4(n) == n

\* ------------------------------------------------------------- calls
IdleCall ==
    [pc |-> "idle", op |-> "none", cid |-> 0, user |-> NoUser, amount |-> 0,
     ref |-> 0, key |-> 0,
     seen |-> {},              \* acquire(): token met at the first failed SET NX
     acquired |-> FALSE,       \* DistributedLock.acquire returned True
     timedout |-> FALSE,       \* DistributedLock.acquire returned False
     via |-> "none",           \* history: where place_bet's result came from
     pend_wallet |-> NoWallet, \* uncommitted wallet.save()
     pend_txn |-> {},          \* uncommitted WalletTransaction insert
     pend_lock |-> {},         \* uncommitted WalletLock insert
     held |-> {},              \* WalletLock row locked FOR UPDATE, deleted at commit
     status |-> "none",        \* outcome: "ok" or the exception raised
     ret |-> {},               \* returned object
     dup0 |-> FALSE,           \* history: key was committed when the call began
     avail0 |-> 0,             \* history: available balance when the call began
     seq0 |-> 0]               \* history: commits[user] when the call began

\* a handler is free to take a request: it has run none, or its last call has
\* ended (call[p] keeps that call's outcome until the next one begins)
Ready(p) == call[p].pc \in {"idle", "done"}

\* WalletTransaction.objects.filter(idempotency_key=key), committed rows
TxnsWithKey(k) == {i \in 1 .. Len(txns) : txns[i].idempotency_key = k}

\* The database before the first modelled call: a user has no wallet yet, or
\* has the wallet that get_or_create_wallet and then one deposit(user, b)
\* leave: balance b and that deposit's DEPOSIT row.  The uuids of these
\* earlier rows are Uuid4(-1), Uuid4(-2), ...
UserIndex(u) == CHOOSE i \in 1 .. Len(UserSeq) : UserSeq[i] = u

InitialDeposit(u, b) ==
    Txn(Uuid4(0 - UserIndex(u)), u, "DEPOSIT", b, 0, b,
        Uuid4(0 - UserIndex(u)), Uuid4(0 - UserIndex(u)))

RECURSIVE InitialLedger(_, _)
InitialLedger(i, b) ==
    IF i > Len(UserSeq) THEN <<>>
    ELSE (IF b[UserSeq[i]] > 0 THEN <<InitialDeposit(UserSeq[i], b[UserSeq[i]])>> ELSE <<>>)
         \o InitialLedger(i + 1, b)

Init ==
    /\ \E b \in [Users -> 0 .. MaxAmount] :
          /\ wallet = [u \in Users |->
                         IF b[u] > 0
                         THEN [NewWallet EXCEPT !.balance = b[u], !.version = 1]
                         ELSE NoWallet]
          /\ txns = InitialLedger(1, b)
          /\ commits = [u \in Users |-> IF b[u] > 0 THEN 1 ELSE 0]
          /\ walletRows = [u \in Users |-> IF b[u] > 0 THEN 1 ELSE 0]
    /\ balanceCache = [u \in Users |-> {}]
    /\ lapsed = {}
    /\ locks = {}
    /\ idemCache = [k \in Keys |-> {}]
    /\ redisLock = [u \in Users |-> {}]
    /\ rowOwner = [u \in Users |-> NoProc]
    /\ call = [p \in Procs |-> IdleCall]
    /\ calls = 0
    /\ debited = [k \in Keys |-> 0]

\* ------------------------------------------------- WalletService.get_or_create_wallet
GetOrCreateWallet(u) ==
    /\ ~wallet[u].created
    /\ wallet' = [wallet EXCEPT ![u] = NewWallet]
    /\ walletRows' = [walletRows EXCEPT ![u] = @ + 1]
    /\ UNCHANGED <<txns, locks, idemCache, redisLock, rowOwner, call, calls, commits, debited,
                   balanceCache, lapsed>>

\* ------------------------------------------------- helpers of the storage layer
\* the wallet read without FOR UPDATE: it never waits
WalletRowNeverWaits(u) == TRUE

\* SELECT ... FOR UPDATE on the wallet row of u returns only when no other
\* transaction holds the row
WalletRowFree(u) == rowOwner[u] = NoProc

\* idempotency_key without unique=True
NoUniqueIndex(k) == FALSE

\* the unique index on idempotency_key: a committed row with this key exists
UniqueViolation(k) == TxnsWithKey(k) # {}

\* the unique index makes an insert wait for an in-flight insert of the same key
KeyInFlight(p, k) ==
    \E q \in Procs \ {p} : \E t \in call[q].pend_txn : t.idempotency_key = k

\* the in-transaction check left out
KeyNeverFound(k) == FALSE

\* WalletTransaction.objects.filter(idempotency_key=...).exists()
KeyExists(k) == TxnsWithKey(k) # {}

\* the reserved amount added instead of subtracted
InsufficientFundsSignSlip(w, amount) == w.balance + w.locked_balance < amount

\* the check against balance alone
InsufficientFundsBalanceOnly(w, amount) == w.balance < amount

\* services.py 53-54 and 186-187: available_balance < amount
InsufficientFunds(w, amount) == AvailableBalance(w) < amount

\* the BET row written with the stake unsigned
BetTxnAmountUnsigned(amount) == amount

\* amount column of the BET row
BetTxnAmount(amount) == -amount

\* a call that ended: outcome and returned object
Finish(c, st, r) ==
    [c EXCEPT !.pc = "done", !.status = st, !.ret = r, !.cid = 0, !.seen = {},
              !.pend_wallet = NoWallet, !.pend_txn = {}, !.pend_lock = {}, !.held = {}]

\* place_bet leaves the atomic block (rolled back or nothing written) and
\* goes on to DistributedLock.__exit__
ToRelease(c, st, r) ==
    [c EXCEPT !.pc = "release", !.status = st, !.ret = r,
              !.pend_wallet = NoWallet, !.pend_txn = {}, !.pend_lock = {}, !.held = {}]

\* ------------------------------------------------- WalletService.place_bet
\* lines 35-38: the fast path finds the key in the cache
PlaceBetCached(p, u, a, r, k) ==
    /\ Ready(p)
    /\ calls < MaxCalls
    /\ idemCache[k] # {}
    /\ calls' = calls + 1
    /\ call' = [call EXCEPT ![p] =
                  Finish([IdleCall EXCEPT !.op = "place_bet", !.cid = calls + 1,
                             !.user = u, !.amount = a, !.ref = r, !.key = k,
                             !.dup0 = (TxnsWithKey(k) # {}),
                             !.avail0 = AvailableBalance(wallet[u]),
                             !.seq0 = commits[u], !.via = "cache"],
                         "ok", idemCache[k])]
    /\ UNCHANGED <<wallet, txns, locks, idemCache, redisLock, rowOwner, commits, debited, balanceCache, walletRows, lapsed>>

\* lines 35-41: cache miss, go on to construct and enter the DistributedLock
PlaceBetBegin(p, u, a, r, k) ==
    /\ Ready(p)
    /\ calls < MaxCalls
    /\ idemCache[k] = {}
    /\ calls' = calls + 1
    /\ call' = [call EXCEPT ![p] =
                  [IdleCall EXCEPT !.pc = "acquire", !.op = "place_bet", !.cid = calls + 1,
                             !.user = u, !.amount = a, !.ref = r, !.key = k,
                             !.dup0 = (TxnsWithKey(k) # {}),
                             !.avail0 = AvailableBalance(wallet[u]),
                             !.seq0 = commits[u]]]
    /\ UNCHANGED <<wallet, txns, locks, idemCache, redisLock, rowOwner, commits, debited, balanceCache, walletRows, lapsed>>

\* ------------------------------------------------- DistributedLock
\* SET without nx=True
SetAlwaysSucceeds(value) == TRUE

\* locks.py 24: connection.set(key, identifier, nx=True, ex=ttl) is truthy
\* exactly when the key was absent
SetNXSucceeds(value) == value = {}

\* the loop without its time check
AcquireOutcomeNoTimeout(value, blocking, elapsed) ==
    IF SetNXSucceeds(value) THEN "True"
    ELSE IF ~blocking THEN "False" ELSE "sleep"

\* locks.py 22-32, one pass of the loop of acquire(blocking, timeout):
\* return True, return False, or sleep and try again.  elapsed is
\* time.time() > end_time
AcquireOutcome(value, blocking, elapsed) ==
    IF SetNXSucceeds(value) THEN "True"
    ELSE IF ~blocking \/ elapsed THEN "False" ELSE "sleep"

\* locks.py 13: self.identifier = str(uuid.uuid4()), one per with-statement
Token(p) == Uuid4(call[p].cid)

\* values the key wallet:<user id> can hold
KeyValues == {{}} \cup {{Uuid4(n)} : n \in 1 .. MaxCalls}

\* timeout (10) exceeds ttl (5): once the timeout has elapsed, the key met is
\* not the one met at the first failed attempt
Elapsed(p) == call[p].seen # {} /\ redisLock[call[p].user] # call[p].seen

\* acquire, locks.py 24-25: SET key identifier NX EX ttl succeeded.
\* __enter__ (51-53) calls acquire(): blocking=True, timeout=10
Acquire(p) ==
    /\ call[p].pc = "acquire"
    /\ AcquireOutcome(redisLock[call[p].user], TRUE, Elapsed(p)) = "True"
    /\ redisLock' = [redisLock EXCEPT ![call[p].user] = {Uuid4(call[p].cid)}]
    /\ call' = [call EXCEPT ![p].pc = "idem_check", ![p].acquired = TRUE]
    /\ UNCHANGED <<wallet, txns, locks, idemCache, rowOwner, calls, commits, debited, balanceCache, walletRows, lapsed>>

\* acquire, locks.py 24-32: SET NX failed, the timeout has not elapsed, sleep.
\* Only the first failed attempt is recorded.
AcquireRetry(p) ==
    /\ call[p].pc = "acquire"
    /\ AcquireOutcome(redisLock[call[p].user], TRUE, Elapsed(p)) = "sleep"
    /\ call[p].seen = {}
    /\ call' = [call EXCEPT ![p].seen = redisLock[call[p].user]]
    /\ UNCHANGED <<wallet, txns, locks, idemCache, redisLock, rowOwner, calls, commits, debited, balanceCache, walletRows, lapsed>>

\* acquire, locks.py 28-29: SET NX failed and time.time() > end_time: return
\* False.  timeout (10) exceeds ttl (5), so the key met now was set by another
\* acquisition than the one met at the first attempt.  __enter__ (51-53) drops
\* the returned value and the with-body runs.
AcquireTimeout(p) ==
    /\ call[p].pc = "acquire"
    /\ AcquireOutcome(redisLock[call[p].user], TRUE, Elapsed(p)) = "False"
    /\ call' = [call EXCEPT ![p].pc = "idem_check", ![p].timedout = TRUE]
    /\ UNCHANGED <<wallet, txns, locks, idemCache, redisLock, rowOwner, calls, commits, debited, balanceCache, walletRows, lapsed>>

\* the key set without ex=ttl
NeverExpired(value) == value

\* locks.py 24, ex=self.ttl: the key after its ttl
Expired(value) == {}

\* the key's EX ttl elapsed
LockExpire(u) ==
    /\ redisLock[u] # {}
    /\ redisLock' = [redisLock EXCEPT ![u] = Expired(@)]
    /\ UNCHANGED <<wallet, txns, locks, idemCache, rowOwner, call, calls, commits, debited, balanceCache, walletRows, lapsed>>

\* release by a plain DEL
ReleaseKeyUnchecked(value, token) == {}

\* __exit__ that leaves the key to its ttl
ReleaseKeySkipped(value, token) == value

\* release, locks.py 34-49 (called by __exit__): compare-and-delete
ReleaseKey(value, token) == IF value = {token} THEN {} ELSE value

Release(p) ==
    /\ call[p].pc = "release"
    /\ redisLock' = [redisLock EXCEPT ![call[p].user] = ReleaseKey(@, Uuid4(call[p].cid))]
    /\ call' = [call EXCEPT ![p].pc = "done", ![p].cid = 0, ![p].seen = {}]
    /\ UNCHANGED <<wallet, txns, locks, idemCache, rowOwner, calls, commits, debited, balanceCache, walletRows, lapsed>>

\* ------------------------------------------------- place_bet, inside transaction.atomic()
\* lines 44-47: the key is in the ledger: cache it, return the stored row
PlaceBetIdemFound(p) ==
    /\ call[p].pc = "idem_check"
    /\ KeyExists(call[p].key)
    /\ LET t == txns[CHOOSE i \in TxnsWithKey(call[p].key) : TRUE] IN
         /\ idemCache' = [idemCache EXCEPT ![call[p].key] = {t}]
         /\ call' = [call EXCEPT ![p] = ToRelease([@ EXCEPT !.via = "ledger"], "ok", {t})]
    /\ UNCHANGED <<wallet, txns, locks, redisLock, rowOwner, calls, commits, debited, balanceCache, walletRows, lapsed>>

\* line 44: the key is not in the ledger
PlaceBetIdemMiss(p) ==
    /\ call[p].pc = "idem_check"
    /\ ~KeyExists(call[p].key)
    /\ call' = [call EXCEPT ![p].pc = "lock_wallet"]
    /\ UNCHANGED <<wallet, txns, locks, idemCache, redisLock, rowOwner, calls, commits, debited, balanceCache, walletRows, lapsed>>

\* line 50: Wallet.objects.select_for_update().get(user=user) raises DoesNotExist
PlaceBetNoWallet(p) ==
    /\ call[p].pc = "lock_wallet"
    /\ ~wallet[call[p].user].created
    /\ call' = [call EXCEPT ![p] = ToRelease(@, "WalletDoesNotExist", {})]
    /\ UNCHANGED <<wallet, txns, locks, idemCache, redisLock, rowOwner, calls, commits, debited, balanceCache, walletRows, lapsed>>

\* lines 50-55: row read under the row lock, available balance too small;
\* the exception rolls the transaction back, which frees the row
PlaceBetInsufficient(p) ==
    /\ call[p].pc = "lock_wallet"
    /\ wallet[call[p].user].created
    /\ WalletRowFree(call[p].user)
    /\ InsufficientFunds(wallet[call[p].user], call[p].amount)
    /\ call' = [call EXCEPT ![p] = ToRelease(@, "InsufficientFunds", {})]
    /\ UNCHANGED <<wallet, txns, locks, idemCache, redisLock, rowOwner, calls, commits, debited, balanceCache, walletRows, lapsed>>

\* the reservation without version += 1
ReserveNoVersion(w, amount) ==
    [w EXCEPT !.balance = @ - amount, !.locked_balance = @ + amount]

\* lines 58-61: balance -= amount, locked_balance += amount, version += 1
Reserve(w, amount) ==
    [w EXCEPT !.balance = @ - amount, !.locked_balance = @ + amount, !.version = @ + 1]

\* lines 50-62: row read under the row lock, debit and wallet.save()
PlaceBetDebit(p) ==
    /\ call[p].pc = "lock_wallet"
    /\ wallet[call[p].user].created
    /\ WalletRowFree(call[p].user)
    /\ ~InsufficientFunds(wallet[call[p].user], call[p].amount)
    /\ rowOwner' = [rowOwner EXCEPT ![call[p].user] = p]
    /\ call' = [call EXCEPT ![p].pc = "insert_txn",
                  ![p].pend_wallet = Reserve(wallet[call[p].user], call[p].amount)]
    /\ UNCHANGED <<wallet, txns, locks, idemCache, redisLock, calls, commits, debited, balanceCache, walletRows, lapsed>>

\* line 65: the insert violates the unique index: IntegrityError leaves
\* place_bet, the transaction is rolled back
PlaceBetDuplicate(p) ==
    /\ call[p].pc = "insert_txn"
    /\ ~KeyInFlight(p, call[p].key)
    /\ UniqueViolation(call[p].key)
    /\ rowOwner' = [rowOwner EXCEPT ![call[p].user] = NoProc]
    /\ call' = [call EXCEPT ![p] = ToRelease(@, "IntegrityError", {})]
    /\ UNCHANGED <<wallet, txns, locks, idemCache, redisLock, calls, commits, debited, balanceCache, walletRows, lapsed>>

\* lines 65-90: BET row, WalletLock row, cache.set of the response
PlaceBetInsert(p) ==
    /\ call[p].pc = "insert_txn"
    /\ ~KeyInFlight(p, call[p].key)
    /\ ~UniqueViolation(call[p].key)
    /\ LET c == call[p]
           t == Txn(Uuid4(c.cid), c.user, "BET", BetTxnAmount(c.amount),
                    wallet[c.user].balance, c.pend_wallet.balance, c.ref, c.key)
           l == WLock(Uuid4(c.cid), c.user, c.amount, "BET_PENDING", c.ref)
       IN /\ call' = [call EXCEPT ![p].pc = "commit", ![p].pend_txn = {t},
                         ![p].pend_lock = {l}, ![p].status = "ok", ![p].ret = {t},
                         ![p].via = "insert"]
          /\ idemCache' = [idemCache EXCEPT ![c.key] = {t}]
          /\ balanceCache' = [balanceCache EXCEPT ![c.user] = {}]
    /\ UNCHANGED <<wallet, txns, locks, redisLock, rowOwner, calls, commits, debited, walletRows, lapsed>>

\* ------------------------------------------------- transaction.atomic().__exit__: COMMIT
AppendAll(s, set) == IF set = {} THEN s ELSE Append(s, CHOOSE t \in set : TRUE)

\* the UPDATE of the wallet row lost while the inserts are kept
CommittedWalletDropped(old, pend) == old

\* the wallet row the committed UPDATE leaves
CommittedWallet(old, pend) == pend

\* lock.delete() left out
CommittedLocksKeepAll(rows, deleted, inserted) == rows \cup inserted

\* the WalletLock table after the commit: DELETEs, then INSERTs
CommittedLocks(rows, deleted, inserted) == (rows \ deleted) \cup inserted

\* a row lock that outlives its transaction
RowLockKept(owner) == owner

\* leaving transaction.atomic() (services.py 42, 99, 145, 182) commits and
\* releases the FOR UPDATE lock on the wallet row
RowLockAtCommit(owner) == NoProc

Commit(p) ==
    /\ call[p].pc = "commit"
    /\ LET c == call[p]
           u == c.user
       IN /\ wallet' = [wallet EXCEPT ![u] = CommittedWallet(@, c.pend_wallet)]
          /\ txns' = AppendAll(txns, c.pend_txn)
          /\ locks' = CommittedLocks(locks, c.held, c.pend_lock)
          /\ rowOwner' = [rowOwner EXCEPT ![u] = RowLockAtCommit(@)]
          /\ commits' = [commits EXCEPT ![u] = @ + 1]
          /\ debited' = IF c.op = "place_bet"
                        THEN [debited EXCEPT ![c.key] =
                                 @ + (wallet[u].balance - c.pend_wallet.balance)]
                        ELSE debited
          /\ call' = [call EXCEPT ![p] =
                        [c EXCEPT !.pc = IF c.op = "place_bet" THEN "release" ELSE "done",
                                  !.cid = IF c.op = "place_bet" THEN @ ELSE 0,
                                  !.pend_wallet = NoWallet, !.pend_txn = {},
                                  !.pend_lock = {}, !.held = {}]]
    /\ UNCHANGED <<idemCache, redisLock, calls, balanceCache, walletRows, lapsed>>

\* ------------------------------------------------- WalletService.settle_bet
\* WalletLock.objects.select_for_update().get(reference_id=..., lock_type='BET_PENDING')
PendingBets(r) == {l \in locks : l.reference_id = r /\ l.lock_type = "BET_PENDING"}

\* a WalletLock row another transaction holds FOR UPDATE
LockRowsHeld(p) == UNION {call[q].held : q \in Procs \ {p}}

BeginCall(p, op, u, a, r) ==
    [IdleCall EXCEPT !.op = op, !.cid = calls + 1, !.user = u, !.amount = a, !.ref = r]

\* lines 101-104: no such row: WalletLock.DoesNotExist
SettleBetNotFound(p, r, win) ==
    /\ Ready(p)
    /\ calls < MaxCalls
    /\ PendingBets(r) = {}
    /\ calls' = calls + 1
    /\ call' = [call EXCEPT ![p] =
                  Finish(BeginCall(p, "settle_bet", NoUser, win, r), "LockDoesNotExist", {})]
    /\ UNCHANGED <<wallet, txns, locks, idemCache, redisLock, rowOwner, commits, debited, balanceCache, walletRows, lapsed>>

\* lines 101-104: several rows: WalletLock.MultipleObjectsReturned
SettleBetMultiple(p, r, win) ==
    /\ Ready(p)
    /\ calls < MaxCalls
    /\ Cardinality(PendingBets(r)) > 1
    /\ PendingBets(r) \cap LockRowsHeld(p) = {}
    /\ calls' = calls + 1
    /\ call' = [call EXCEPT ![p] =
                  Finish(BeginCall(p, "settle_bet", NoUser, win, r), "MultipleObjectsReturned", {})]
    /\ UNCHANGED <<wallet, txns, locks, idemCache, redisLock, rowOwner, commits, debited, balanceCache, walletRows, lapsed>>

\* lines 101-104: the one row, now locked FOR UPDATE
SettleBetBegin(p, r, win) ==
    /\ Ready(p)
    /\ calls < MaxCalls
    /\ Cardinality(PendingBets(r)) = 1
    /\ PendingBets(r) \cap LockRowsHeld(p) = {}
    /\ calls' = calls + 1
    /\ LET l == CHOOSE x \in PendingBets(r) : TRUE IN
         call' = [call EXCEPT ![p] =
                    [BeginCall(p, "settle_bet", l.wallet, win, r) EXCEPT
                        !.pc = "settle_wallet", !.held = {l}]]
    /\ UNCHANGED <<wallet, txns, locks, idemCache, redisLock, rowOwner, commits, debited, balanceCache, walletRows, lapsed>>

\* the credit and its WIN row made whatever win_amount is
WinAlwaysCredited(win) == TRUE

\* line 113: if win_amount > 0
WinCredited(win) == win > 0

\* lines 107-136: wallet row locked, reservation released, winnings credited
SettleBetWallet(p) ==
    /\ call[p].pc = "settle_wallet"
    /\ WalletRowFree(call[p].user)
    /\ LET c == call[p]
           l == CHOOSE x \in c.held : TRUE
           w == wallet[c.user]
           released == [w EXCEPT !.locked_balance = @ - l.amount]
           pw == IF WinCredited(c.amount)
                 THEN [released EXCEPT !.balance = @ + c.amount, !.version = @ + 1]
                 ELSE released
           win == IF WinCredited(c.amount)
                  THEN {Txn(Uuid4(c.cid), c.user, "WIN", c.amount, w.balance, pw.balance,
                            c.ref, Uuid4(c.cid))}
                  ELSE {}
       IN call' = [call EXCEPT ![p].pc = "commit", ![p].pend_wallet = pw,
                      ![p].pend_txn = win, ![p].status = "ok"]
    /\ rowOwner' = [rowOwner EXCEPT ![call[p].user] = p]
    /\ balanceCache' = [balanceCache EXCEPT ![call[p].user] = {}]
    /\ UNCHANGED <<wallet, txns, locks, idemCache, redisLock, calls, commits, debited, walletRows, lapsed>>

\* ------------------------------------------------- WalletService.deposit
\* line 146: Wallet.DoesNotExist
DepositNoWallet(p, u, a) ==
    /\ Ready(p)
    /\ calls < MaxCalls
    /\ ~wallet[u].created
    /\ calls' = calls + 1
    /\ call' = [call EXCEPT ![p] =
                  Finish(BeginCall(p, "deposit", u, a, 0), "WalletDoesNotExist", {})]
    /\ UNCHANGED <<wallet, txns, locks, idemCache, redisLock, rowOwner, commits, debited, balanceCache, walletRows, lapsed>>

\* the credit booked on locked_balance as well
CreditAlsoLocked(w, amount) ==
    [w EXCEPT !.balance = @ + amount, !.locked_balance = @ + amount, !.version = @ + 1]

\* lines 150-151: balance += amount, version += 1
Credit(w, amount) == [w EXCEPT !.balance = @ + amount, !.version = @ + 1]

\* lines 146-173
Deposit(p, u, a) ==
    /\ Ready(p)
    /\ calls < MaxCalls
    /\ wallet[u].created
    /\ WalletRowFree(u)
    /\ calls' = calls + 1
    /\ rowOwner' = [rowOwner EXCEPT ![u] = p]
    /\ LET w == wallet[u]
           pw == Credit(w, a)
           t == Txn(Uuid4(calls + 1), u, "DEPOSIT", a, w.balance, pw.balance,
                    Uuid4(calls + 1), Uuid4(calls + 1))
       IN call' = [call EXCEPT ![p] =
                     [BeginCall(p, "deposit", u, a, 0) EXCEPT
                         !.pc = "commit", !.pend_wallet = pw, !.pend_txn = {t},
                         !.status = "ok", !.ret = {t}]]
    /\ balanceCache' = [balanceCache EXCEPT ![u] = {}]
    /\ UNCHANGED <<wallet, txns, locks, idemCache, redisLock, commits, debited, walletRows, lapsed>>

\* ------------------------------------------------- WalletService.initiate_withdrawal
\* line 183: Wallet.DoesNotExist
WithdrawalNoWallet(p, u, a) ==
    /\ Ready(p)
    /\ calls < MaxCalls
    /\ ~wallet[u].created
    /\ calls' = calls + 1
    /\ call' = [call EXCEPT ![p] =
                  Finish(BeginCall(p, "initiate_withdrawal", u, a, 0), "WalletDoesNotExist", {})]
    /\ UNCHANGED <<wallet, txns, locks, idemCache, redisLock, rowOwner, commits, debited, balanceCache, walletRows, lapsed>>

\* lines 183-188
WithdrawalInsufficient(p, u, a) ==
    /\ Ready(p)
    /\ calls < MaxCalls
    /\ wallet[u].created
    /\ WalletRowFree(u)
    /\ InsufficientFunds(wallet[u], a)
    /\ calls' = calls + 1
    /\ call' = [call EXCEPT ![p] =
                  Finish(BeginCall(p, "initiate_withdrawal", u, a, 0), "InsufficientFunds", {})]
    /\ UNCHANGED <<wallet, txns, locks, idemCache, redisLock, rowOwner, commits, debited, balanceCache, walletRows, lapsed>>

\* the hold taken out of balance as well
HoldDebits(w, amount) ==
    [w EXCEPT !.balance = @ - amount, !.locked_balance = @ + amount, !.version = @ + 1]

\* lines 190-191: locked_balance += amount, version += 1
Hold(w, amount) == [w EXCEPT !.locked_balance = @ + amount, !.version = @ + 1]

\* lines 183-205
Withdrawal(p, u, a) ==
    /\ Ready(p)
    /\ calls < MaxCalls
    /\ wallet[u].created
    /\ WalletRowFree(u)
    /\ ~InsufficientFunds(wallet[u], a)
    /\ calls' = calls + 1
    /\ rowOwner' = [rowOwner EXCEPT ![u] = p]
    /\ LET w == wallet[u]
           pw == Hold(w, a)
           l == WLock(Uuid4(calls + 1), u, a, "WITHDRAWAL_PENDING", Uuid4(calls + 1))
       IN call' = [call EXCEPT ![p] =
                     [BeginCall(p, "initiate_withdrawal", u, a, 0) EXCEPT
                         !.pc = "commit", !.pend_wallet = pw, !.pend_lock = {l},
                         !.status = "ok", !.ret = {l}]]
    /\ balanceCache' = [balanceCache EXCEPT ![u] = {}]
    /\ UNCHANGED <<wallet, txns, locks, idemCache, redisLock, commits, debited, walletRows, lapsed>>

\* ------------------------------------------------- the cache's 24 h timeout / eviction
CacheEvict(k) ==
    /\ idemCache[k] # {}
    /\ idemCache' = [idemCache EXCEPT ![k] = {}]
    /\ UNCHANGED <<wallet, txns, locks, redisLock, rowOwner, call, calls, commits, debited, balanceCache, walletRows, lapsed>>

Next ==
    \/ \E u \in Users : GetOrCreateWallet(u)
    \/ \E p \in Procs, u \in Users, a \in Amounts, r \in Rounds, k \in Keys :
          PlaceBetCached(p, u, a, r, k)
    \/ \E p \in Procs, u \in Users, a \in Amounts, r \in Rounds, k \in Keys :
          PlaceBetBegin(p, u, a, r, k)
    \/ \E p \in Procs : Acquire(p)
    \/ \E p \in Procs : AcquireRetry(p)
    \/ \E p \in Procs : AcquireTimeout(p)
    \/ \E u \in Users : LockExpire(u)
    \/ \E p \in Procs : Release(p)
    \/ \E p \in Procs : PlaceBetIdemFound(p)
    \/ \E p \in Procs : PlaceBetIdemMiss(p)
    \/ \E p \in Procs : PlaceBetNoWallet(p)
    \/ \E p \in Procs : PlaceBetInsufficient(p)
    \/ \E p \in Procs : PlaceBetDebit(p)
    \/ \E p \in Procs : PlaceBetDuplicate(p)
    \/ \E p \in Procs : PlaceBetInsert(p)
    \/ \E p \in Procs : Commit(p)
    \/ \E p \in Procs, r \in Rounds, w \in WinAmounts : SettleBetNotFound(p, r, w)
    \/ \E p \in Procs, r \in Rounds, w \in WinAmounts : SettleBetMultiple(p, r, w)
    \/ \E p \in Procs, r \in Rounds, w \in WinAmounts : SettleBetBegin(p, r, w)
    \/ \E p \in Procs : SettleBetWallet(p)
    \/ \E p \in Procs, u \in Users, a \in Amounts : DepositNoWallet(p, u, a)
    \/ \E p \in Procs, u \in Users, a \in Amounts : Deposit(p, u, a)
    \/ \E p \in Procs, u \in Users, a \in Amounts : WithdrawalNoWallet(p, u, a)
    \/ \E p \in Procs, u \in Users, a \in Amounts : WithdrawalInsufficient(p, u, a)
    \/ \E p \in Procs, u \in Users, a \in Amounts : Withdrawal(p, u, a)
    \/ \E k \in Keys : CacheEvict(k)

Spec == Init /\ [][Next]_vars

\* ------------------------------------------------- a handler that dies
\* The process running place_bet is killed inside the with-block (services.py
\* 41-90): DistributedLock.__exit__ (locks.py 55-56) never runs, the database
\* rolls the open transaction back when the connection drops, and the key
\* stays in Redis until its ttl.
Crash(p) ==
    /\ call[p].op = "place_bet"
    /\ call[p].pc \in {"idem_check", "lock_wallet", "insert_txn", "commit"}
    /\ rowOwner' = [rowOwner EXCEPT ![call[p].user] = IF @ = p THEN NoProc ELSE @]
    /\ call' = [call EXCEPT ![p] =
                  [@ EXCEPT !.pc = "crashed", !.status = "crashed", !.ret = {},
                            !.seen = {}, !.pend_wallet = NoWallet, !.pend_txn = {},
                            !.pend_lock = {}, !.held = {}]]
    /\ UNCHANGED <<wallet, txns, locks, idemCache, redisLock, calls, commits, debited, balanceCache, walletRows, lapsed>>

\* place_bet and its DistributedLock, with handlers that may die
NextLock ==
    \/ \E p \in Procs, u \in Users, a \in Amounts, r \in Rounds, k \in Keys :
          PlaceBetCached(p, u, a, r, k)
    \/ \E p \in Procs, u \in Users, a \in Amounts, r \in Rounds, k \in Keys :
          PlaceBetBegin(p, u, a, r, k)
    \/ \E p \in Procs : Acquire(p)
    \/ \E p \in Procs : AcquireRetry(p)
    \/ \E p \in Procs : AcquireTimeout(p)
    \/ \E u \in Users : LockExpire(u)
    \/ \E p \in Procs : Release(p)
    \/ \E p \in Procs : PlaceBetIdemFound(p)
    \/ \E p \in Procs : PlaceBetIdemMiss(p)
    \/ \E p \in Procs : PlaceBetNoWallet(p)
    \/ \E p \in Procs : PlaceBetInsufficient(p)
    \/ \E p \in Procs : PlaceBetDebit(p)
    \/ \E p \in Procs : PlaceBetDuplicate(p)
    \/ \E p \in Procs : PlaceBetInsert(p)
    \/ \E p \in Procs : Commit(p)
    \/ \E p \in Procs : Crash(p)

\* Redis removes a key once its ttl has passed (locks.py 24, ex=self.ttl), and
\* the loop of acquire polls every 10 ms (locks.py 22-32): a key that stays
\* absent is taken by a waiting caller
LockFairness ==
    /\ \A u \in Users : WF_vars(LockExpire(u))
    /\ \A p \in Procs : WF_vars(Acquire(p))

LockSpec == Init /\ [][NextLock]_vars /\ LockFairness

\* ------------------------------------------------- reservations and time
\* The clock passes the expires_at of WalletLock row i (services.py 83:
\* 5 minutes after place_bet, 201: 24 hours after initiate_withdrawal).
\* Nothing in the repository reads expires_at.
ReservationExpires(i) ==
    /\ i \notin lapsed
    /\ \E l \in locks : l.id = i
    /\ lapsed' = lapsed \cup {i}
    /\ UNCHANGED <<wallet, txns, locks, idemCache, redisLock, rowOwner, call, calls, commits,
                   debited, balanceCache, walletRows>>

\* a step of the call p is running
HandlerStep(p) ==
    \/ Acquire(p) \/ Release(p)
    \/ PlaceBetIdemFound(p) \/ PlaceBetIdemMiss(p) \/ PlaceBetNoWallet(p)
    \/ PlaceBetInsufficient(p) \/ PlaceBetDebit(p) \/ PlaceBetInsert(p)
    \/ SettleBetWallet(p) \/ Commit(p)

\* the operations that create and resolve reservations, and the clock
NextReservation ==
    \/ \E p \in Procs, u \in Users, a \in Amounts, r \in Rounds, k \in Keys :
          PlaceBetBegin(p, u, a, r, k)
    \/ \E p \in Procs : HandlerStep(p)
    \/ \E p \in Procs, r \in Rounds, w \in WinAmounts : SettleBetNotFound(p, r, w)
    \/ \E p \in Procs, r \in Rounds, w \in WinAmounts : SettleBetMultiple(p, r, w)
    \/ \E p \in Procs, r \in Rounds, w \in WinAmounts : SettleBetBegin(p, r, w)
    \/ \E p \in Procs, u \in Users, a \in Amounts : WithdrawalNoWallet(p, u, a)
    \/ \E p \in Procs, u \in Users, a \in Amounts : WithdrawalInsufficient(p, u, a)
    \/ \E p \in Procs, u \in Users, a \in Amounts : Withdrawal(p, u, a)
    \/ \E i \in 1 .. MaxCalls : ReservationExpires(i)

\* time passes, and a call that has begun runs to its end; whether the
\* external system calls again is up to it
ReservationFairness ==
    /\ \A i \in 1 .. MaxCalls : WF_vars(ReservationExpires(i))
    /\ \A p \in Procs : WF_vars(HandlerStep(p))

ReservationSpec == Init /\ [][NextReservation]_vars /\ ReservationFairness

\* ------------------------------------------------- get_user_wallet, get_balance
\* the Wallet returned to a caller: the n-th row created for user u
WalletRef(u, n) == [user |-> u, row |-> n]

\* Wallet.user without its unique constraint
UserNeverTaken(u) == FALSE

\* models.py 9: user = OneToOneField(...), a unique index: an INSERT for a
\* user who has a Wallet row fails with IntegrityError
UserTaken(u) == walletRows[u] > 0

\* the caller has its Wallet object: get_user_wallet (and
\* get_transaction_history, which only reads it) returns; get_balance (line
\* 220) goes on to cache.set with the balance it has just read
GotWallet(c, n) ==
    IF c.op = "get_balance"
    THEN [c EXCEPT !.pc = "cache_set", !.status = "ok", !.ret = {wallet[c.user].balance}]
    ELSE Finish(c, "ok", {WalletRef(c.user, n)})

\* services.py 22-27, called by the views and by get_transaction_history
GetUserWallet(p, u) ==
    /\ Ready(p)
    /\ calls < MaxCalls
    /\ calls' = calls + 1
    /\ call' = [call EXCEPT ![p] =
                  [BeginCall(p, "get_user_wallet", u, 0, 0) EXCEPT !.pc = "lookup"]]
    /\ UNCHANGED <<wallet, txns, locks, idemCache, redisLock, rowOwner, commits, debited,
                   balanceCache, walletRows, lapsed>>

\* get_balance, lines 214-218: the cached balance is returned
GetBalanceCached(p, u) ==
    /\ Ready(p)
    /\ calls < MaxCalls
    /\ balanceCache[u] # {}
    /\ calls' = calls + 1
    /\ call' = [call EXCEPT ![p] =
                  Finish(BeginCall(p, "get_balance", u, 0, 0), "ok", balanceCache[u])]
    /\ UNCHANGED <<wallet, txns, locks, idemCache, redisLock, rowOwner, commits, debited,
                   balanceCache, walletRows, lapsed>>

\* get_balance, lines 214-220: cache miss, go on to get_user_wallet
GetBalanceMiss(p, u) ==
    /\ Ready(p)
    /\ calls < MaxCalls
    /\ balanceCache[u] = {}
    /\ calls' = calls + 1
    /\ call' = [call EXCEPT ![p] =
                  [BeginCall(p, "get_balance", u, 0, 0) EXCEPT !.pc = "lookup"]]
    /\ UNCHANGED <<wallet, txns, locks, idemCache, redisLock, rowOwner, commits, debited,
                   balanceCache, walletRows, lapsed>>

\* line 25: Wallet.objects.get(user=user) returns the committed row
LookupFound(p) ==
    /\ call[p].pc = "lookup"
    /\ wallet[call[p].user].created
    /\ call' = [call EXCEPT ![p] = GotWallet(@, walletRows[call[p].user])]
    /\ UNCHANGED <<wallet, txns, locks, idemCache, redisLock, rowOwner, calls, commits, debited,
                   balanceCache, walletRows, lapsed>>

\* lines 25-27: Wallet.DoesNotExist, go on to get_or_create_wallet
LookupMissing(p) ==
    /\ call[p].pc = "lookup"
    /\ ~wallet[call[p].user].created
    /\ call' = [call EXCEPT ![p].pc = "get_or_create"]
    /\ UNCHANGED <<wallet, txns, locks, idemCache, redisLock, rowOwner, calls, commits, debited,
                   balanceCache, walletRows, lapsed>>

\* line 18, Wallet.objects.get_or_create(user=user): its get finds the row
GocFound(p) ==
    /\ call[p].pc = "get_or_create"
    /\ wallet[call[p].user].created
    /\ call' = [call EXCEPT ![p] = GotWallet(@, walletRows[call[p].user])]
    /\ UNCHANGED <<wallet, txns, locks, idemCache, redisLock, rowOwner, calls, commits, debited,
                   balanceCache, walletRows, lapsed>>

\* line 18: its get finds no row, go on to the INSERT
GocMissing(p) ==
    /\ call[p].pc = "get_or_create"
    /\ ~wallet[call[p].user].created
    /\ call' = [call EXCEPT ![p].pc = "create"]
    /\ UNCHANGED <<wallet, txns, locks, idemCache, redisLock, rowOwner, calls, commits, debited,
                   balanceCache, walletRows, lapsed>>

\* line 18: the INSERT succeeds (autocommit) with the model's defaults
\* (models.py 10-13)
Create(p) ==
    /\ call[p].pc = "create"
    /\ ~UserTaken(call[p].user)
    /\ wallet' = [wallet EXCEPT ![call[p].user] = NewWallet]
    /\ walletRows' = [walletRows EXCEPT ![call[p].user] = @ + 1]
    /\ call' = [call EXCEPT ![p] =
                  IF @.op = "get_balance"
                  THEN [@ EXCEPT !.pc = "cache_set", !.status = "ok", !.ret = {NewWallet.balance}]
                  ELSE Finish(@, "ok", {WalletRef(@.user, walletRows[@.user] + 1)})]
    /\ UNCHANGED <<txns, locks, idemCache, redisLock, rowOwner, calls, commits, debited,
                   balanceCache, lapsed>>

\* line 18: the INSERT fails with IntegrityError; get_or_create reads the
\* row the other caller created
CreateConflict(p) ==
    /\ call[p].pc = "create"
    /\ UserTaken(call[p].user)
    /\ call' = [call EXCEPT ![p] = GotWallet(@, walletRows[call[p].user])]
    /\ UNCHANGED <<wallet, txns, locks, idemCache, redisLock, rowOwner, calls, commits, debited,
                   balanceCache, walletRows, lapsed>>

\* get_balance, lines 222-225: cache.set(cache_key, str(wallet.balance), 60)
CacheSet(p) ==
    /\ call[p].pc = "cache_set"
    /\ balanceCache' = [balanceCache EXCEPT ![call[p].user] = call[p].ret]
    /\ call' = [call EXCEPT ![p] = Finish(@, "ok", @.ret)]
    /\ UNCHANGED <<wallet, txns, locks, idemCache, redisLock, rowOwner, calls, commits, debited,
                   walletRows, lapsed>>

\* line 223: the entry's 60 s timeout
BalanceCacheExpire(u) ==
    /\ balanceCache[u] # {}
    /\ balanceCache' = [balanceCache EXCEPT ![u] = {}]
    /\ UNCHANGED <<wallet, txns, locks, idemCache, redisLock, rowOwner, call, calls, commits,
                   debited, walletRows, lapsed>>

\* the readers, wallet creation, and deposit as the writer beside them
NextAccess ==
    \/ \E p \in Procs, u \in Users : GetUserWallet(p, u)
    \/ \E p \in Procs, u \in Users : GetBalanceCached(p, u)
    \/ \E p \in Procs, u \in Users : GetBalanceMiss(p, u)
    \/ \E p \in Procs : LookupFound(p)
    \/ \E p \in Procs : LookupMissing(p)
    \/ \E p \in Procs : GocFound(p)
    \/ \E p \in Procs : GocMissing(p)
    \/ \E p \in Procs : Create(p)
    \/ \E p \in Procs : CreateConflict(p)
    \/ \E p \in Procs : CacheSet(p)
    \/ \E u \in Users : BalanceCacheExpire(u)
    \/ \E p \in Procs, u \in Users, a \in Amounts : DepositNoWallet(p, u, a)
    \/ \E p \in Procs, u \in Users, a \in Amounts : Deposit(p, u, a)
    \/ \E p \in Procs : Commit(p)

AccessSpec == Init /\ [][NextAccess]_vars

\* ------------------------------------------------- place_bet, any amount
\* place_bet takes amount as given (services.py 30, 52-62): nothing in the
\* service rejects a zero or a negative value, InvalidAmountException
\* (exceptions.py 19-21) is never raised
AnyAmounts == (0 - MaxAmount)..MaxAmount

NextAmount ==
    \/ \E p \in Procs, u \in Users, a \in AnyAmounts, r \in Rounds, k \in Keys :
          PlaceBetCached(p, u, a, r, k)
    \/ \E p \in Procs, u \in Users, a \in AnyAmounts, r \in Rounds, k \in Keys :
          PlaceBetBegin(p, u, a, r, k)
    \/ \E p \in Procs : Acquire(p)
    \/ \E p \in Procs : AcquireRetry(p)
    \/ \E p \in Procs : AcquireTimeout(p)
    \/ \E u \in Users : LockExpire(u)
    \/ \E p \in Procs : Release(p)
    \/ \E p \in Procs : PlaceBetIdemFound(p)
    \/ \E p \in Procs : PlaceBetIdemMiss(p)
    \/ \E p \in Procs : PlaceBetNoWallet(p)
    \/ \E p \in Procs : PlaceBetInsufficient(p)
    \/ \E p \in Procs : PlaceBetDebit(p)
    \/ \E p \in Procs : PlaceBetDuplicate(p)
    \/ \E p \in Procs : PlaceBetInsert(p)
    \/ \E p \in Procs : Commit(p)

AmountSpec == Init /\ [][NextAmount]_vars

\* ------------------------------------------------- calls on one wallet
\* place_bet, settle_bet, deposit and initiate_withdrawal all on the wallet of
\* one user, each handler scheduled until it ends
SameWallet == UserSeq[1]

\* a step of the call p is running, its waits included
RunningStep(p) ==
    \/ Acquire(p) \/ AcquireRetry(p) \/ AcquireTimeout(p) \/ Release(p)
    \/ PlaceBetIdemFound(p) \/ PlaceBetIdemMiss(p) \/ PlaceBetNoWallet(p)
    \/ PlaceBetInsufficient(p) \/ PlaceBetDebit(p) \/ PlaceBetDuplicate(p)
    \/ PlaceBetInsert(p) \/ SettleBetWallet(p) \/ Commit(p)

NextSameWallet ==
    \/ \E p \in Procs, a \in Amounts, r \in Rounds, k \in Keys :
          PlaceBetCached(p, SameWallet, a, r, k)
    \/ \E p \in Procs, a \in Amounts, r \in Rounds, k \in Keys :
          PlaceBetBegin(p, SameWallet, a, r, k)
    \/ \E p \in Procs : RunningStep(p)
    \/ LockExpire(SameWallet)
    \/ \E p \in Procs, r \in Rounds, w \in WinAmounts : SettleBetNotFound(p, r, w)
    \/ \E p \in Procs, r \in Rounds, w \in WinAmounts : SettleBetBegin(p, r, w)
    \/ \E p \in Procs, a \in Amounts : DepositNoWallet(p, SameWallet, a)
    \/ \E p \in Procs, a \in Amounts : Deposit(p, SameWallet, a)
    \/ \E p \in Procs, a \in Amounts : WithdrawalNoWallet(p, SameWallet, a)
    \/ \E p \in Procs, a \in Amounts : WithdrawalInsufficient(p, SameWallet, a)
    \/ \E p \in Procs, a \in Amounts : Withdrawal(p, SameWallet, a)

\* every handler that has begun keeps being scheduled, and Redis removes a
\* key once its ttl has passed (locks.py 24)
SameWalletFairness ==
    /\ \A p \in Procs : WF_vars(RunningStep(p))
    /\ WF_vars(LockExpire(SameWallet))

SameWalletSpec == Init /\ [][NextSameWallet]_vars /\ SameWalletFairness

\* =================================================================== claims
RECURSIVE SumAmounts(_, _)
\* sum of the amount column of the first n committed rows of wallet u
SumAmounts(u, n) ==
    IF n = 0 THEN 0
    ELSE SumAmounts(u, n - 1) + (IF txns[n].wallet = u THEN txns[n].amount ELSE 0)

RECURSIVE SumLocks(_)
SumLocks(rows) ==
    IF rows = {} THEN 0
    ELSE LET l == CHOOSE x \in rows : TRUE IN l.amount + SumLocks(rows \ {l})

LocksOf(u) == {l \in locks : l.wallet = u}

PlaceBets == {p \in Procs : call[p].op = "place_bet"}

\* C1: every wallet's committed balance equals the sum of the amounts of its
\* committed WalletTransaction rows.
C1_Conservation ==
    \A u \in Users : wallet[u].balance = SumAmounts(u, Len(txns))

\* the case of C1: a wallet whose ledger holds a deposit, a bet and a win
C1_Witness ==
    \E u \in Users :
        /\ \E i \in 1 .. Len(txns) : txns[i].wallet = u /\ txns[i].type = "BET"
        /\ \E i \in 1 .. Len(txns) : txns[i].wallet = u /\ txns[i].type = "WIN"
        /\ \E i \in 1 .. Len(txns) : txns[i].wallet = u /\ txns[i].type = "DEPOSIT"

\* C2: every wallet's committed locked_balance is at most its balance
\* (available_balance is never negative).
C2_LockedWithinBalance ==
    \A u \in Users : wallet[u].locked_balance <= wallet[u].balance

\* C3: every wallet's committed balance and locked_balance are non-negative
\* (all amount arguments are positive).
C3_NonNegative ==
    \A u \in Users : wallet[u].balance >= 0 /\ wallet[u].locked_balance >= 0

\* the case of C3: a bet took the whole balance, and a reservation was released
C3_Witness ==
    /\ \E u \in Users : wallet[u].balance = 0 /\ wallet[u].locked_balance > 0
    /\ \E p \in Procs : call[p].op = "settle_bet" /\ call[p].pc = "commit"

\* C4: a place_bet call begun when its idempotency key is already in the
\* ledger, with the arguments of the stored bet, writes nothing (no wallet
\* update, no WalletTransaction, no WalletLock) and returns the stored row,
\* which stays the only row of that key.
SameArguments(c, t) ==
    t.wallet = c.user /\ t.amount = BetTxnAmount(c.amount) /\ t.reference_id = c.ref

C4_Idempotent ==
    \A p \in PlaceBets :
        LET c == call[p] IN
        (c.dup0 /\ \A i \in TxnsWithKey(c.key) : SameArguments(c, txns[i])) =>
            /\ c.pend_wallet = NoWallet /\ c.pend_txn = {} /\ c.pend_lock = {}
            /\ c.pc \notin {"insert_txn", "commit"}
            /\ Cardinality(TxnsWithKey(c.key)) = 1
            /\ c.pc = "done" =>
                  c.status = "ok" /\ c.ret = {txns[i] : i \in TxnsWithKey(c.key)}

\* the case of C4: the retry came after the bet was settled and after the
\* cache lost the key, and got the stored row from the ledger
C4_Witness ==
    \E p \in PlaceBets :
        LET c == call[p] IN
        /\ c.dup0 /\ c.pc = "done" /\ c.via = "ledger"
        /\ \A i \in TxnsWithKey(c.key) : SameArguments(c, txns[i])
        /\ ~\E l \in locks : l.reference_id = c.ref
        /\ \E i \in 1 .. Len(txns) : txns[i].type = "WIN" /\ txns[i].reference_id = c.ref

\* the retry served by the cache
C4_WitnessCached ==
    \E p \in PlaceBets :
        call[p].dup0 /\ call[p].pc = "done" /\ call[p].via = "cache"

C6_UniqueKey ==
    /\ \A i, j \in 1 .. Len(txns) :
          txns[i].idempotency_key = txns[j].idempotency_key => i = j
    /\ \A k \in Keys :
          /\ Cardinality(TxnsWithKey(k)) <= 1
          /\ TxnsWithKey(k) = {} => debited[k] = 0
          /\ \A i \in TxnsWithKey(k) : debited[k] = 0 - txns[i].amount

\* the case of C6: two calls with one key both passed the ledger check, and
\* the unique index stopped the second insert
C6_Witness ==
    \E p \in PlaceBets :
        /\ call[p].status = "IntegrityError"
        /\ debited[call[p].key] > 0

\* C7: two place_bet calls of one user with different fresh keys, both begun
\* when the wallet's available balance equals the amount of each (> 0), and
\* with no other committed write to that wallet: exactly one commits its BET
\* and the other fails with InsufficientFunds.
RacePair(p, q) ==
    LET c == call[p]
        d == call[q]
    IN /\ p # q
       /\ c.pc = "done" /\ d.pc = "done"
       /\ c.user = d.user /\ c.key # d.key
       /\ c.via # "cache" /\ d.via # "cache" /\ ~c.dup0 /\ ~d.dup0
       /\ c.amount = c.avail0 /\ d.amount = d.avail0 /\ c.amount = d.amount
       /\ c.amount > 0
       /\ c.seq0 = d.seq0
       /\ commits[c.user] = c.seq0 + Cardinality({x \in {p, q} : call[x].status = "ok"})
       /\ \A i \in TxnsWithKey(c.key) \cup TxnsWithKey(d.key) : txns[i].wallet = c.user

C7_BetRace ==
    \A p, q \in PlaceBets :
        RacePair(p, q) =>
            \/ call[p].status = "ok" /\ call[q].status = "InsufficientFunds"
            \/ call[q].status = "ok" /\ call[p].status = "InsufficientFunds"

\* the case of C7: both calls were running before either committed, and both
\* acquired the distributed lock
C7_Witness ==
    \E p, q \in PlaceBets :
        /\ RacePair(p, q)
        /\ call[p].status = "ok" /\ call[q].status = "InsufficientFunds"
        /\ call[p].acquired /\ call[q].acquired

\* C8: every wallet's committed locked_balance equals the sum of the amounts
\* of its committed WalletLock rows.
C8_ReservationConservation ==
    \A u \in Users : wallet[u].locked_balance = SumLocks(LocksOf(u))

\* the case of C8: a wallet holding a bet reservation and a withdrawal
\* reservation
C8_Witness ==
    \E u \in Users :
        /\ \E l \in LocksOf(u) : l.lock_type = "BET_PENDING"
        /\ \E l \in LocksOf(u) : l.lock_type = "WITHDRAWAL_PENDING"

\* a reservation was released by settle_bet while another stays
C8_WitnessSettled ==
    \E p \in Procs :
        /\ call[p].op = "settle_bet" /\ call[p].pc = "done" /\ call[p].status = "ok"
        /\ LocksOf(call[p].user) # {}

\* C9: a place_bet call whose DistributedLock.acquire returned False has
\* failed with a lock-timeout error and has nothing written or pending.
C9_TimeoutFails ==
    \A p \in PlaceBets :
        call[p].timedout =>
            /\ call[p].pc = "done" /\ call[p].status = "LockTimeout"
            /\ call[p].pend_wallet = NoWallet /\ call[p].pend_txn = {}

\* C10: no two place_bet calls of one user are both between the return of
\* DistributedLock.acquire and the call of DistributedLock.release.
InCriticalSection(p) ==
    call[p].op = "place_bet" /\ call[p].pc \in {"idem_check", "lock_wallet", "insert_txn", "commit"}

C10_OneInFlight ==
    \A p, q \in Procs :
        (p # q /\ call[p].user = call[q].user) =>
            ~(InCriticalSection(p) /\ InCriticalSection(q))

\* C11 (spec 5): every operation that changes balance or locked_balance holds
\* the wallet row lock and the distributed lock wallet:<user id> from its read
\* of the row to its commit.
C11_BothLocksHeld ==
    \A p \in Procs :
        call[p].pc \in {"insert_txn", "commit"} =>
            /\ rowOwner[call[p].user] = p
            /\ redisLock[call[p].user] = {Token(p)}

\* C12: acquire takes the key only when it is absent, as one check-and-set:
\* a call comes out of acquire as the holder only by a step that found the
\* key absent and left its own token there, and a key that is present is
\* never replaced by another token (it can only disappear).
C12_AcquireAtomic ==
    [][ /\ \A p \in Procs :
             (call[p].pc = "acquire" /\ call'[p].acquired) =>
                 /\ redisLock[call[p].user] = {}
                 /\ redisLock'[call[p].user] = {Token(p)}
        /\ \A u \in Users :
             redisLock[u] # {} => redisLock'[u] \in {redisLock[u], {}}
        /\ \A u \in Users :
             (redisLock[u] = {} /\ redisLock'[u] # {}) =>
                 Cardinality({p \in Procs : call[p].pc = "acquire" /\ call[p].user = u
                                              /\ call'[p].acquired}) = 1
      ]_vars

\* q holds the key and p, which tried while q held it, is still waiting
C12_Witness ==
    \E p \in Procs : \E q \in Procs \ {p} :
        /\ call[p].pc = "acquire"
        /\ call[q].acquired
        /\ call[q].user = call[p].user
        /\ call[p].seen = {Token(q)}
        /\ redisLock[call[p].user] = {Token(q)}

\* C13: release deletes the key only when it holds the releasing instance's
\* own token: a release that meets another token, or no key, changes nothing,
\* and a key disappears only by its ttl or by its holder's release.
C13_ReleaseOwnTokenOnly ==
    [][ /\ \A p \in Procs :
             (call[p].pc = "release" /\ call'[p].pc = "done") =>
                 /\ redisLock[call[p].user] = {Token(p)} => redisLock'[call[p].user] = {}
                 /\ redisLock[call[p].user] # {Token(p)} =>
                        redisLock'[call[p].user] = redisLock[call[p].user]
        /\ \A u \in Users :
             (redisLock[u] # {} /\ redisLock'[u] = {}) =>
                 \/ call' = call
                 \/ \E p \in Procs : /\ call[p].pc = "release"
                                      /\ call'[p].pc = "done"
                                      /\ call[p].user = u
                                      /\ redisLock[u] = {Token(p)}
      ]_vars

\* p acquired, its key expired, q acquired and committed the key's row, p
\* then found that row and released: q's key is still there
C13_Witness ==
    \E p \in Procs : \E q \in Procs \ {p} :
        /\ call[p].op = "place_bet" /\ call[p].pc = "done"
        /\ call[p].acquired /\ call[p].via = "ledger"
        /\ call[q].op = "place_bet" /\ call[q].pc = "release"
        /\ call[q].acquired /\ call[q].via = "insert"
        /\ call[q].user = call[p].user
        /\ call[p].ret = call[q].ret
        /\ redisLock[call[q].user] = {Token(q)}

\* the holder q died inside the with-block and its key is still in Redis
CrashedHolder(q, u) ==
    /\ call[q].pc = "crashed"
    /\ call[q].user = u
    /\ redisLock[u] = {Token(q)}

\* C14: a key whose holder died without releasing it disappears with its
\* ttl, and a caller whose blocking acquire keeps retrying against that key
\* (it met no earlier holder, so its timeout of 10 outlasts the key's ttl of
\* 5) then gets the lock.
C14_CrashedHolderHeals ==
    /\ \A q \in Procs, u \in Users :
          CrashedHolder(q, u) ~> (redisLock[u] # {Token(q)})
    /\ \A p \in Procs, q \in Procs :
          (call[p].pc = "acquire" /\ CrashedHolder(q, call[p].user)
              /\ call[p].seen \subseteq {Token(q)})
              ~> (call[p].acquired /\ redisLock[call[p].user] # {Token(q)})

\* p met the dead holder's key at its first attempt and holds the lock now
C14_Witness ==
    \E p \in Procs : \E q \in Procs \ {p} :
        /\ call[q].pc = "crashed" /\ call[q].acquired
        /\ call[p].pc = "idem_check" /\ call[p].acquired
        /\ call[p].user = call[q].user
        /\ call[p].seen = {Token(q)}
        /\ redisLock[call[p].user] = {Token(p)}

\* C15: acquire always ends with a boolean.  Without blocking one attempt
\* decides: True on an absent key, False on a held one, never a sleep.  With
\* blocking it sleeps only while the key is held and the timeout has not
\* elapsed, returns False only once it has, and every call that entered
\* acquire leaves it, as the holder (True) or not (False), never both.
C15_AcquireTerminates ==
    /\ \A p \in Procs : (call[p].pc = "acquire") ~> (call[p].pc # "acquire")
    /\ [](\A p \in Procs :
             (call[p].op = "place_bet" /\ call[p].via # "cache"
                 /\ call[p].pc \notin {"idle", "acquire"}) =>
                     (call[p].acquired # call[p].timedout))
    /\ [](\A v \in KeyValues, e \in BOOLEAN :
             /\ AcquireOutcome(v, FALSE, e) = (IF v = {} THEN "True" ELSE "False")
             /\ AcquireOutcome(v, TRUE, e) = "True" <=> v = {}
             /\ AcquireOutcome(v, TRUE, e) = "False" <=> (v # {} /\ e)
             /\ AcquireOutcome(v, TRUE, e) = "sleep" <=> (v # {} /\ ~e))

\* a blocking acquire that slept and then gave up
C15_Witness ==
    \E p \in Procs :
        /\ call[p].op = "place_bet" /\ call[p].pc = "idem_check"
        /\ call[p].timedout /\ ~call[p].acquired
        /\ call[p].seen # {}
        /\ redisLock[call[p].user] \notin {{}, call[p].seen}

\* the step that commits p's transaction of operation op
Commits(p, op) ==
    /\ call[p].op = op
    /\ call[p].pc = "commit"
    /\ call'[p].pc \in {"release", "done"}

\* C16: a successful place_bet changes the state by exactly: balance -
\* amount, locked_balance + amount, version + 1, one BET row appended (amount
\* -amount, balance_before the old and balance_after the new balance,
\* reference_id the round) and one BET_PENDING WalletLock of that amount for
\* that round; the amount was available and no other wallet changes.
C16_PlaceBetEffect ==
    [][ \A p \in Procs :
          Commits(p, "place_bet") =>
            LET c == call[p]
                old == wallet[c.user]
                new == wallet'[c.user]
                t == txns'[Len(txns')]
            IN /\ c.amount <= old.balance - old.locked_balance
               /\ new.balance = old.balance - c.amount
               /\ new.locked_balance = old.locked_balance + c.amount
               /\ new.version = old.version + 1
               /\ Len(txns') = Len(txns) + 1
               /\ SubSeq(txns', 1, Len(txns)) = txns
               /\ t.wallet = c.user /\ t.type = "BET" /\ t.amount = -c.amount
               /\ t.balance_before = old.balance /\ t.balance_after = new.balance
               /\ t.reference_id = c.ref /\ t.idempotency_key = c.key
               /\ \E l \in locks' \ locks :
                     /\ locks' = locks \cup {l}
                     /\ l.wallet = c.user /\ l.amount = c.amount
                     /\ l.lock_type = "BET_PENDING" /\ l.reference_id = c.ref
               /\ \A v \in Users \ {c.user} : wallet'[v] = wallet[v]
      ]_vars

\* a place_bet that has just committed its debit
C16_Witness ==
    \E p \in Procs :
        /\ call[p].op = "place_bet" /\ call[p].pc = "release"
        /\ call[p].via = "insert" /\ call[p].status = "ok"
        /\ Len(txns) > 0
        /\ txns[Len(txns)].id = Uuid4(call[p].cid)
        /\ \E l \in locks : l.id = Uuid4(call[p].cid)

\* C17: place_bet for more than balance - locked_balance fails with
\* InsufficientFunds and changes nothing: no row, no WalletLock, the wallet as
\* it was, no idempotency-cache entry written.
C17_InsufficientFundsNoChange ==
    /\ [][ \A p \in Procs :
              (/\ call[p].op = "place_bet"
               /\ call[p].pc = "lock_wallet"
               /\ call'[p].pc # "lock_wallet"
               /\ wallet[call[p].user].created
               /\ call[p].amount >
                     wallet[call[p].user].balance - wallet[call[p].user].locked_balance)
              => /\ call'[p].status = "InsufficientFunds"
                 /\ call'[p].pc = "release"
                 /\ UNCHANGED <<wallet, txns, locks, idemCache, rowOwner>>
          ]_vars
    /\ [](\A p \in Procs :
             call[p].status = "InsufficientFunds" =>
                 /\ call[p].pc \in {"release", "done"}
                 /\ call[p].pend_wallet = NoWallet
                 /\ call[p].pend_txn = {} /\ call[p].pend_lock = {}
                 /\ call[p].ret = {} /\ call[p].via = "none"
                 /\ rowOwner[call[p].user] # p)

\* a place_bet refused although the balance alone would have covered it
C17_Witness ==
    \E p \in Procs :
        /\ call[p].op = "place_bet" /\ call[p].pc = "done"
        /\ call[p].status = "InsufficientFunds"
        /\ wallet[call[p].user].balance >= call[p].amount
        /\ idemCache[call[p].key] = {}
        /\ TxnsWithKey(call[p].key) = {}

\* C18: a successful settle_bet lowers locked_balance by exactly the
\* reservation's amount and deletes that reservation.  With win_amount > 0
\* the balance rises by win_amount and exactly one WIN row of +win_amount is
\* appended, its balance_after = balance_before + win_amount; with
\* win_amount = 0 the balance is unchanged and no row is appended.
C18_SettleBetEffect ==
    [][ \A p \in Procs :
          Commits(p, "settle_bet") =>
            LET c == call[p]
                old == wallet[c.user]
                new == wallet'[c.user]
                t == txns'[Len(txns')]
            IN /\ \E l \in locks :
                     /\ c.held = {l}
                     /\ l.lock_type = "BET_PENDING" /\ l.reference_id = c.ref
                     /\ new.locked_balance = old.locked_balance - l.amount
                     /\ locks' = locks \ {l}
               /\ c.amount > 0 =>
                     /\ new.balance = old.balance + c.amount
                     /\ Len(txns') = Len(txns) + 1
                     /\ SubSeq(txns', 1, Len(txns)) = txns
                     /\ t.wallet = c.user /\ t.type = "WIN" /\ t.amount = c.amount
                     /\ t.balance_before = old.balance
                     /\ t.balance_after = t.balance_before + c.amount
                     /\ t.reference_id = c.ref
               /\ c.amount = 0 => (new.balance = old.balance /\ txns' = txns)
               /\ \A v \in Users \ {c.user} : wallet'[v] = wallet[v]
      ]_vars

\* a settled winning bet: the WIN row is the last of the ledger
C18_Witness ==
    \E p \in Procs :
        /\ call[p].op = "settle_bet" /\ call[p].pc = "done" /\ call[p].status = "ok"
        /\ call[p].amount > 0
        /\ Len(txns) > 0
        /\ txns[Len(txns)].type = "WIN"
        /\ txns[Len(txns)].reference_id = call[p].ref
        /\ PendingBets(call[p].ref) = {}

\* a settled losing bet: the reservation is gone and the ledger has no WIN row
C18_WitnessNoWin ==
    \E p \in Procs :
        /\ call[p].op = "settle_bet" /\ call[p].pc = "done" /\ call[p].status = "ok"
        /\ call[p].amount = 0
        /\ \A i \in 1 .. Len(txns) : txns[i].type # "WIN"
        /\ PendingBets(call[p].ref) = {}

\* C19: of the settle_bet calls for one game round exactly one succeeds and
\* every other fails with reservation-not-found: no settle_bet call ends any
\* other way.
C19_SettledOrNotFound ==
    \A p \in Procs :
        (call[p].op = "settle_bet" /\ call[p].pc = "done") =>
            call[p].status \in {"ok", "LockDoesNotExist"}

\* C20: at most one BET_PENDING WalletLock exists per reference_id, so
\* settle_bet finds exactly one.
C20_OneReservationPerRound ==
    \A r \in Rounds : Cardinality(PendingBets(r)) <= 1

\* ledger rows of wallet u before row i
EarlierRows(u, i) == {j \in 1 .. i - 1 : txns[j].wallet = u}

\* the last element of a non-empty set of row numbers
Latest(rows) == CHOOSE j \in rows : \A k \in rows : k <= j

\* ledger rows of wallet u
RowsOf(u) == {j \in 1 .. Len(txns) : txns[j].wallet = u}

\* C23: every committed row has balance_after = balance_before + amount, and
\* the rows of one wallet in commit order form a chain: each balance_before is
\* the previous row's balance_after (0 for the first) and the last
\* balance_after is the wallet's balance.
C23_LedgerChain ==
    /\ \A i \in 1 .. Len(txns) :
          /\ txns[i].balance_after = txns[i].balance_before + txns[i].amount
          /\ txns[i].balance_before =
                IF EarlierRows(txns[i].wallet, i) = {} THEN 0
                ELSE txns[Latest(EarlierRows(txns[i].wallet, i))].balance_after
    /\ \A u \in Users :
          wallet[u].balance =
              IF RowsOf(u) = {} THEN 0 ELSE txns[Latest(RowsOf(u))].balance_after

\* a chain of a deposit, a bet and a win on one wallet
C23_Witness ==
    \E u \in Users :
        /\ Cardinality(RowsOf(u)) >= 3
        /\ \E i \in RowsOf(u) : txns[i].type = "BET"
        /\ \E i \in RowsOf(u) : txns[i].type = "WIN"
        /\ txns[Latest(RowsOf(u))].type = "WIN"

\* C25: the first operation of any kind for a user who has no wallet creates
\* a zero-balance wallet and proceeds: no call fails with wallet-not-found.
C25_LazyCreation ==
    \A p \in Procs : call[p].status # "WalletDoesNotExist"

\* the step in which p's call of operation op begins
Begins(p, op) ==
    /\ calls' = calls + 1
    /\ call'[p] # call[p]
    /\ call'[p].op = op

\* C27: initiate_withdrawal for more than balance - locked_balance fails with
\* InsufficientFunds and changes nothing; otherwise it raises locked_balance
\* by amount, creates exactly one WITHDRAWAL_PENDING WalletLock of that amount
\* with a fresh reference_id, and leaves balance and the ledger unchanged.
C27_WithdrawalEffect ==
    [][ \A p \in Procs :
          /\ (Begins(p, "initiate_withdrawal") /\ wallet[call'[p].user].created) =>
                LET w == wallet[call'[p].user] IN
                  IF call'[p].amount > w.balance - w.locked_balance
                  THEN /\ call'[p].status = "InsufficientFunds"
                       /\ call'[p].pc = "done"
                       /\ call'[p].pend_wallet = NoWallet
                       /\ call'[p].pend_txn = {} /\ call'[p].pend_lock = {}
                       /\ UNCHANGED <<wallet, txns, locks, rowOwner>>
                  ELSE /\ call'[p].status = "ok"
                       /\ call'[p].pc = "commit"
          /\ Commits(p, "initiate_withdrawal") =>
                LET c == call[p]
                    old == wallet[c.user]
                    new == wallet'[c.user]
                IN /\ c.amount <= old.balance - old.locked_balance
                   /\ new.locked_balance = old.locked_balance + c.amount
                   /\ new.balance = old.balance
                   /\ txns' = txns
                   /\ \E l \in locks' \ locks :
                         /\ locks' = locks \cup {l}
                         /\ l.wallet = c.user /\ l.amount = c.amount
                         /\ l.lock_type = "WITHDRAWAL_PENDING"
                         /\ \A m \in locks : m.reference_id # l.reference_id
                         /\ l.reference_id \notin Rounds
                   /\ \A v \in Users \ {c.user} : wallet'[v] = wallet[v]
      ]_vars

\* a committed withdrawal hold
C27_Witness ==
    \E p \in Procs :
        /\ call[p].op = "initiate_withdrawal" /\ call[p].pc = "done"
        /\ call[p].status = "ok"
        /\ call[p].ret \subseteq locks /\ call[p].ret # {}
        /\ wallet[call[p].user].locked_balance >= call[p].amount

\* a withdrawal refused for lack of available funds
C27_WitnessRefused ==
    \E p \in Procs :
        /\ call[p].op = "initiate_withdrawal" /\ call[p].pc = "done"
        /\ call[p].status = "InsufficientFunds"

\* C28: deposit raises balance by exactly amount, appends exactly one DEPOSIT
\* row of +amount with a fresh idempotency key and leaves locked_balance and
\* the reservations unchanged: the available balance rises by amount.
C28_DepositEffect ==
    [][ \A p \in Procs :
          Commits(p, "deposit") =>
            LET c == call[p]
                old == wallet[c.user]
                new == wallet'[c.user]
                t == txns'[Len(txns')]
            IN /\ new.balance = old.balance + c.amount
               /\ new.locked_balance = old.locked_balance
               /\ AvailableBalance(new) = AvailableBalance(old) + c.amount
               /\ locks' = locks
               /\ Len(txns') = Len(txns) + 1
               /\ SubSeq(txns', 1, Len(txns)) = txns
               /\ t.wallet = c.user /\ t.type = "DEPOSIT" /\ t.amount = c.amount
               /\ t.balance_before = old.balance /\ t.balance_after = new.balance
               /\ TxnsWithKey(t.idempotency_key) = {}
               /\ t.idempotency_key \notin Keys
               /\ \A v \in Users \ {c.user} : wallet'[v] = wallet[v]
      ]_vars

\* a committed deposit: its row is the last of the ledger
C28_Witness ==
    \E p \in Procs :
        /\ call[p].op = "deposit" /\ call[p].pc = "done" /\ call[p].status = "ok"
        /\ Len(txns) > 0
        /\ call[p].ret = {txns[Len(txns)]}
        /\ wallet[call[p].user].balance = txns[Len(txns)].balance_after

\* outcomes that are exceptions
Failures ==
    {"InsufficientFunds", "WalletDoesNotExist", "IntegrityError", "LockDoesNotExist",
     "MultipleObjectsReturned", "crashed"}

\* C29: every mutating operation commits all of its writes or none.  The
\* committed wallet, ledger and reservations change only together: a wallet
\* update comes with its ledger row or reservation change, a ledger row with
\* the wallet update it records, a BET row with its BET_PENDING reservation
\* and the reverse, and the step in which a call fails changes none of them.
C29_Atomicity ==
    [][ /\ \A u \in Users :
             (wallet[u].created /\ wallet'[u] # wallet[u]) =>
                 (txns' # txns \/ locks' # locks)
        /\ txns' # txns =>
             /\ Len(txns') = Len(txns) + 1
             /\ SubSeq(txns', 1, Len(txns)) = txns
             /\ LET t == txns'[Len(txns')] IN
                  /\ wallet[t.wallet].balance = t.balance_before
                  /\ wallet'[t.wallet].balance = t.balance_after
                  /\ wallet'[t.wallet].version = wallet[t.wallet].version + 1
                  /\ t.type = "BET" =>
                        \E l \in locks' \ locks :
                            /\ l.id = t.id /\ l.lock_type = "BET_PENDING"
                            /\ l.amount = -t.amount /\ l.wallet = t.wallet
        /\ \A l \in locks' \ locks :
             /\ wallet'[l.wallet].locked_balance = wallet[l.wallet].locked_balance + l.amount
             /\ l.lock_type = "BET_PENDING" =>
                   (txns' # txns /\ txns'[Len(txns')].id = l.id
                       /\ txns'[Len(txns')].type = "BET")
        /\ \A l \in locks \ locks' :
             wallet'[l.wallet].locked_balance = wallet[l.wallet].locked_balance - l.amount
        /\ \A p \in Procs :
             (call'[p].status \in Failures /\ call'[p] # call[p]) =>
                 UNCHANGED <<wallet, txns, locks>>
      ]_vars

\* a place_bet whose insert failed after wallet.save(): the wallet row is as
\* the other call's commit left it
C29_Witness ==
    \E p \in Procs :
        /\ call[p].op = "place_bet" /\ call[p].status = "IntegrityError"
        /\ call[p].pc \in {"release", "done"}
        /\ Cardinality(TxnsWithKey(call[p].key)) = 1
        /\ RowsOf(call[p].user) # {}
        /\ wallet[call[p].user].balance
              = txns[Latest(RowsOf(call[p].user))].balance_after

\* C30: the idempotency cache is written only after the commit: at every
\* moment each entry idempotency:<key> holds a row that is in the ledger.
C30_CacheAfterCommit ==
    \A k \in Keys :
        \A t \in idemCache[k] : \E i \in 1 .. Len(txns) : txns[i] = t

\* C21: settle_bet for a round whose BET_PENDING reservation has passed its
\* expires_at fails with reservation-not-found, as for a settled round.
C21_ExpiredNotSettled ==
    [][ \A p \in Procs :
          (/\ Begins(p, "settle_bet")
           /\ PendingBets(call'[p].ref) # {}
           /\ \A l \in PendingBets(call'[p].ref) : l.id \in lapsed)
          => call'[p].status = "LockDoesNotExist"
      ]_vars

\* C22: every abandoned reservation is eventually expired: once its
\* expires_at has passed, the WalletLock is eventually removed (and its amount
\* taken off locked_balance).
C22_EventuallyExpired ==
    \A i \in 1 .. MaxCalls :
        (i \in lapsed /\ \E l \in locks : l.id = i) ~> ~(\E l \in locks : l.id = i)

\* C24: whenever no wallet operation is in flight, a cached balance
\* wallet_balance:<user>, if present, equals the wallet's committed balance.
C24_BalanceCacheFresh ==
    (\A p \in Procs : Ready(p)) =>
        \A u \in Users : \A b \in balanceCache[u] : b = wallet[u].balance

\* C26: there is at most one Wallet per user, every caller of
\* get_user_wallet / get_or_create_wallet gets that wallet, and a wallet is
\* created with balance 0, locked_balance 0 and version 0.
C26_OneWalletPerUser ==
    /\ [](\A u \in Users :
             /\ walletRows[u] <= 1
             /\ wallet[u].created <=> walletRows[u] = 1)
    /\ [](\A p \in Procs :
             (call[p].op = "get_user_wallet" /\ call[p].pc = "done") =>
                 /\ call[p].status = "ok"
                 /\ call[p].ret = {WalletRef(call[p].user, 1)}
                 /\ wallet[call[p].user].created)
    /\ [][ \A u \in Users :
              walletRows'[u] # walletRows[u] =>
                  /\ walletRows[u] = 0
                  /\ wallet'[u].created
                  /\ wallet'[u].balance = 0
                  /\ wallet'[u].locked_balance = 0
                  /\ wallet'[u].version = 0
          ]_vars

\* two concurrent callers for a user without a wallet: both found none, one
\* created it, the other's INSERT failed and it returned the same wallet
C26_Witness ==
    \E p \in Procs : \E q \in Procs \ {p} :
        /\ call[p].op = "get_user_wallet" /\ call[p].pc = "done"
        /\ call[q].op = "get_user_wallet" /\ call[q].pc = "create"
        /\ call[q].user = call[p].user
        /\ walletRows[call[p].user] = 1
        /\ wallet[call[p].user] = NewWallet

\* C31: the transaction place_bet returns belongs to the calling user's
\* wallet: a call with an idempotency key another user already used is never
\* answered with that other user's transaction.
C31_ReturnedTxnIsCallers ==
    \A p \in PlaceBets :
        (call[p].pc = "done" /\ call[p].status = "ok") =>
            \A t \in call[p].ret : t.wallet = call[p].user

\* C35: a wallet's version never decreases, and every committed change of its
\* balance or locked_balance raises version by exactly 1, a settle_bet with a
\* zero win amount included.
C35_VersionCounts ==
    [][ \A u \in Users :
           /\ wallet'[u].version >= wallet[u].version
           /\ (/\ wallet[u].created
               /\ \/ wallet'[u].balance # wallet[u].balance
                  \/ wallet'[u].locked_balance # wallet[u].locked_balance)
              => wallet'[u].version = wallet[u].version + 1
      ]_vars

\* reservations of initiate_withdrawal on the wallet of u
WithdrawalLocksOf(u) == {l \in LocksOf(u) : l.lock_type = "WITHDRAWAL_PENDING"}

\* a place_bet p and an initiate_withdrawal q for the same user, each for the
\* whole available balance p saw when it began, with no other commit on the
\* wallet since
BetWithdrawalRace(p, q) ==
    LET c == call[p]
        d == call[q]
    IN /\ p # q
       /\ c.op = "place_bet" /\ d.op = "initiate_withdrawal"
       /\ c.pc = "done" /\ d.pc = "done"
       /\ c.user = d.user
       /\ c.via # "cache" /\ ~c.dup0
       /\ c.amount = c.avail0 /\ d.amount = c.amount /\ c.amount > 0
       /\ commits[c.user] = c.seq0 + Cardinality({x \in {p, q} : call[x].status = "ok"})

\* C33: a place_bet and an initiate_withdrawal racing for the same user's
\* whole available balance never both succeed: the amount held for withdrawals
\* is always covered by the balance left after the bets, each of the two
\* operations commits only an amount the committed wallet has available, and
\* of a racing pair at most one ends with success.
C33_BetWithdrawalRace ==
    /\ [](\A u \in Users : SumLocks(WithdrawalLocksOf(u)) <= wallet[u].balance)
    /\ [](\A p \in Procs : \A q \in Procs :
             BetWithdrawalRace(p, q) =>
                 ~(call[p].status = "ok" /\ call[q].status = "ok"))
    /\ [][ \A p \in Procs :
              (Commits(p, "place_bet") \/ Commits(p, "initiate_withdrawal")) =>
                  call[p].amount <= AvailableBalance(wallet[call[p].user])
          ]_vars

\* the race happened: the withdrawal committed after the bet had begun and
\* taken the distributed lock, and the bet then failed for lack of funds
C33_Witness ==
    \E p \in Procs : \E q \in Procs \ {p} :
        /\ BetWithdrawalRace(p, q)
        /\ call[q].status = "ok"
        /\ call[p].status = "InsufficientFunds"
        /\ call[p].acquired
        /\ commits[call[p].user] = call[p].seq0 + 1

\* place_bet is inside the with-block: between __enter__ and __exit__
InWithBlock(p) ==
    /\ call[p].op = "place_bet"
    /\ call[p].pc \in {"idem_check", "lock_wallet", "insert_txn", "commit", "release"}

\* the storage transaction of p is over: nothing pending, no row lock
TransactionEnded(p) ==
    /\ call[p].pend_wallet = NoWallet
    /\ call[p].pend_txn = {}
    /\ call[p].pend_lock = {}
    /\ \A u \in Users : rowOwner[u] # p

\* C36: place_bet releases the distributed lock on every exit path, after its
\* transaction has committed or rolled back: once a call has returned or
\* raised, the key lock:wallet:<user> does not hold that call's token, a token
\* in Redis is always that of a call still inside its with-block, and the
\* release runs only when the call's transaction has ended.
C36_ReleasedOnExit ==
    /\ [](\A u \in Users :
             redisLock[u] # {} =>
                 \E p \in Procs : /\ InWithBlock(p)
                                  /\ call[p].user = u
                                  /\ redisLock[u] = {Token(p)})
    /\ [](\A p \in Procs : call[p].pc = "release" => TransactionEnded(p))
    /\ [][ \A p \in PlaceBets :
              /\ (call[p].pc # "done" /\ call'[p].pc = "done") =>
                     /\ redisLock'[call[p].user] # {Token(p)}
                     /\ call[p].pc \in {"release", "idle"}
              /\ (/\ InWithBlock(p)
                  /\ redisLock[call[p].user] = {Token(p)}
                  /\ redisLock'[call[p].user] # {Token(p)}
                  /\ call' # call) =>
                     /\ call[p].pc = "release"
                     /\ TransactionEnded(p)
          ]_vars

\* a call that raised InsufficientFunds has released the key it had acquired
C36_Witness ==
    \E p \in PlaceBets :
        /\ call[p].pc = "done" /\ call[p].acquired
        /\ call[p].status = "InsufficientFunds"
        /\ redisLock[call[p].user] = {}

\* a call whose bet committed has released the key it had acquired
C36_WitnessSuccess ==
    \E p \in PlaceBets :
        /\ call[p].pc = "done" /\ call[p].acquired
        /\ call[p].status = "ok" /\ call[p].via = "insert"
        /\ redisLock[call[p].user] = {}

\* C32: no place_bet, whatever its amount argument (zero and negative values
\* included), raises a wallet's balance or lowers its locked_balance.
C32_BetNeverCredits ==
    [][ \A p \in Procs :
           Commits(p, "place_bet") =>
               /\ wallet'[call[p].user].balance <= wallet[call[p].user].balance
               /\ wallet'[call[p].user].locked_balance >=
                      wallet[call[p].user].locked_balance
      ]_vars

\* the call of p has begun and has not ended
Running(p) == call[p].pc \notin {"idle", "done", "crashed"}

\* C34: no deadlock: every place_bet, settle_bet, deposit and
\* initiate_withdrawal running on the same wallet eventually completes, and
\* while a call is running some running call can take a step or the key of
\* the distributed lock can expire: no cycle of waiting between the
\* distributed lock, the wallet row lock and the WalletLock row lock.
C34_DeadlockFree ==
    /\ \A p \in Procs : Running(p) ~> call[p].pc = "done"
    /\ []((\E p \in Procs : Running(p)) =>
             ENABLED ((\E p \in Procs : RunningStep(p)) \/ LockExpire(SameWallet)))

\* a settle_bet that holds its WalletLock row waits for the wallet row, which
\* another call's open transaction holds
C34_Witness ==
    \E p \in Procs : \E q \in Procs \ {p} :
        /\ call[p].op = "settle_bet" /\ call[p].pc = "settle_wallet"
        /\ call[p].held # {}
        /\ \A l \in call[p].held : l.wallet = SameWallet
        /\ Running(q)
        /\ rowOwner[SameWallet] = q


====
